---- MODULE Spec2Model ----
(***************************************************************************)
(* Air-quality analysis helpers: src/data_interpretation.py (reference     *)
(* table, category distribution) and src/data_visualization.py (time-index *)
(* normalisation and the chart renderers).                                 *)
(*                                                                         *)
(* A table (pandas DataFrame) is a record                                  *)
(*   indexType : "DatetimeIndex" or "RangeIndex"                           *)
(*   index     : the row labels, one per row (a RangeIndex label is        *)
(*               written as the string of its number)                      *)
(*   columns   : the set of column names                                   *)
(*   rows      : one function columns -> cell value per row                *)
(* A Timestamp is the number of hours since Monday 2024-01-01 00:00.       *)
(* Every function of the code is an operator that returns what the call    *)
(* leaves behind: its return value, what it printed, the figure it showed, *)
(* the files it wrote, whether it raised, and the state of the caller's    *)
(* table object after the call.                                            *)
(*                                                                         *)
(* Outside the model: what matplotlib/seaborn do with the data they are    *)
(* handed (a figure is taken as drawn once the code reaches the plotting   *)
(* call), the correlation coefficients, and plot_top_n_contaminated_days,  *)
(* whose table and ranking belong to the station object of data_processing.*)
(***************************************************************************)
EXTENDS Integers, Sequences, FiniteSets, TLC

VARIABLES df, op, call, ret, outcome, stdout, shown, saved

vars == <<df, op, call, ret, outcome, stdout, shown, saved>>

\* ------------------------------------------------------------------ bounds
MaxRows == 3

\* ------------------------------------------------------- values and helpers
NaN == "NaN"

ReturnNone == [kind |-> "None"]

RECURSIVE SumSeq(_)
SumSeq(s) == IF s = << >> THEN 0 ELSE Head(s) + SumSeq(Tail(s))

RECURSIVE FilterSeq(_, _)
\* list comprehension [c for c in s if c in keep]
FilterSeq(s, keep) ==
    IF s = << >> THEN << >>
    ELSE IF Head(s) \in keep THEN <<Head(s)>> \o FilterSeq(Tail(s), keep)
         ELSE FilterSeq(Tail(s), keep)

Column(t, c) == [i \in 1..Len(t.rows) |-> t.rows[i][c]]

\* ---------------------------------------------- src/data_interpretation.py
ICA_ORDER ==
    <<"Buena", "Moderada", "Dañina para grupos sensibles", "Muy dañina", "Peligrosa">>

\* the range strings are written with "-" where the source has an en dash
\* variant: the reference table built over the six labels of the bar chart
show_ica_health_table_6rows ==
    [kind |-> "DataFrame",
     value |-> [i \in 1..6 |->
        [categoria |-> <<"Buena", "Moderada", "Dañina para grupos sensibles",
                         "Dañina", "Muy dañina", "Peligrosa">>[i],
         rango |-> <<"0-12", "12.1-35.4", "35.5-55.4", "35.5-55.4",
                     "55.5-150.4", ">150.4">>[i],
         impacto |-> <<"Sin efectos visibles",
                       "Leve irritación en personas sensibles",
                       "Riesgo respiratorio leve",
                       "Riesgo respiratorio leve",
                       "Efectos respiratorios y cardíacos",
                       "Riesgo alto para toda la población">>[i]]]]

show_ica_health_table ==
    [kind |-> "DataFrame",
     value |-> [i \in 1..5 |->
        [categoria |-> <<"Buena", "Moderada", "Dañina para grupos sensibles",
                         "Muy dañina", "Peligrosa">>[i],
         rango |-> <<"0-12", "12.1-35.4", "35.5-55.4", "55.5-150.4", ">150.4">>[i],
         impacto |-> <<"Sin efectos visibles",
                       "Leve irritación en personas sensibles",
                       "Riesgo respiratorio leve",
                       "Efectos respiratorios y cardíacos",
                       "Riesgo alto para toda la población">>[i]]]]

RECURSIVE Unique(_)
\* the distinct values of s, in order of first appearance
Unique(s) ==
    IF s = << >> THEN << >>
    ELSE LET init == Unique(SubSeq(s, 1, Len(s) - 1))
             last == s[Len(s)]
         IN IF \E i \in 1..Len(init) : init[i] = last THEN init
            ELSE Append(init, last)

CountOf(s, v) == Cardinality({i \in 1..Len(s) : s[i] = v})

RECURSIVE InsertDescending(_, _)
\* stable insertion of entry e behind the entries whose count is >= e's
InsertDescending(sorted, e) ==
    IF sorted = << >> THEN <<e>>
    ELSE IF Head(sorted).conteo >= e.conteo
         THEN <<Head(sorted)>> \o InsertDescending(Tail(sorted), e)
         ELSE <<e>> \o sorted

\* variant: sort_values(ascending=True)
RECURSIVE InsertAscending(_, _)
InsertAscending(sorted, e) ==
    IF sorted = << >> THEN <<e>>
    ELSE IF Head(sorted).conteo <= e.conteo
         THEN <<Head(sorted)>> \o InsertAscending(Tail(sorted), e)
         ELSE <<e>> \o sorted

RECURSIVE SortAscending(_)
SortAscending(entries) ==
    IF entries = << >> THEN << >>
    ELSE InsertAscending(SortAscending(SubSeq(entries, 1, Len(entries) - 1)),
                         entries[Len(entries)])

RECURSIVE SortDescending(_)
\* Series.sort_values(ascending=False) inside value_counts
SortDescending(entries) ==
    IF entries = << >> THEN << >>
    ELSE InsertDescending(SortDescending(SubSeq(entries, 1, Len(entries) - 1)),
                          entries[Len(entries)])

DropNaN(s) == SelectSeq(s, LAMBDA v : v # NaN)

\* variant: dropna=False not passed on
value_counts_dropping_missing(s, dropna) ==
    LET kept == DropNaN(s)
        vals == Unique(kept)
    IN SortDescending([i \in 1..Len(vals) |->
                          [categoria |-> vals[i], conteo |-> CountOf(kept, vals[i])]])

\* Series.value_counts(dropna=...): one entry per distinct value, by descending count
value_counts(s, dropna) ==
    LET kept == IF dropna THEN DropNaN(s) ELSE s
        vals == Unique(kept)
    IN SortDescending([i \in 1..Len(vals) |->
                          [categoria |-> vals[i], conteo |-> CountOf(kept, vals[i])]])

\* variant: no membership test, df_clean[cat_col] raises on a missing column
category_distribution_raises(t, cat_col) ==
    IF cat_col \notin t.columns
    THEN [ret |-> ReturnNone, outcome |-> "raised KeyError", stdout |-> << >>, arg |-> t]
    ELSE [ret |-> [kind |-> "DataFrame", value |-> << >>],
          outcome |-> "returned", stdout |-> << >>, arg |-> t]

\* porcentaje = conteo / conteo.sum() * 100 is kept as the exact fraction num/den
category_distribution(t, cat_col) ==
    IF cat_col \notin t.columns
    THEN [ret |-> ReturnNone, outcome |-> "returned",
          stdout |-> <<"No se encontró la columna 'ica_category'">>, arg |-> t]
    ELSE LET categoria_counts == value_counts(Column(t, cat_col), FALSE)
             total == SumSeq([i \in 1..Len(categoria_counts) |-> categoria_counts[i].conteo])
         IN [ret |-> [kind |-> "DataFrame",
                      value |-> [i \in 1..Len(categoria_counts) |->
                          [categoria |-> categoria_counts[i].categoria,
                           conteo |-> categoria_counts[i].conteo,
                           porcentaje |-> [num |-> categoria_counts[i].conteo * 100,
                                           den |-> total]]]],
             outcome |-> "returned", stdout |-> << >>, arg |-> t]

\* ---------------------------------------------- src/data_visualization.py
CONTAMINANTES == <<"co", "no", "no2", "o3", "so2", "pm2_5", "pm10", "nh3">>

NaT == "NaT"

\* pd.to_datetime(value, errors='coerce') on the date strings the tables hold:
\* a well-formed string becomes its Timestamp, a Timestamp stays, the rest is NaT
to_datetime(v) ==
    CASE v = "2024-01-01 00:00" -> "Timestamp('2024-01-01 00:00:00')"
      [] v = "2024-01-07 13:00" -> "Timestamp('2024-01-07 13:00:00')"
      [] v = "Timestamp('2024-01-01 00:00:00')" -> v
      [] v = "Timestamp('2024-01-07 13:00:00')" -> v
      [] OTHER -> NaT

\* DatetimeIndex.dayofweek (Monday = 0) and DatetimeIndex.hour
dayofweek(ts) ==
    CASE ts = "Timestamp('2024-01-01 00:00:00')" -> 0
      [] ts = "Timestamp('2024-01-07 13:00:00')" -> 6

hour(ts) ==
    CASE ts = "Timestamp('2024-01-01 00:00:00')" -> 0
      [] ts = "Timestamp('2024-01-07 13:00:00')" -> 13

\* A table object: the table value and the identity of the object that holds it.
\* "caller" is the object the caller passed; DataFrame.copy() makes another one.
CallerObject(t) == [id |-> "caller", val |-> t]

\* variant: the .copy() left out
DataFrame_copy_missing(obj) == obj

DataFrame_copy(obj) == [id |-> "copy", val |-> obj.val]

\* df[c] = values: assignment into the object itself
SetColumn(obj, c, values) ==
    [id |-> obj.id,
     val |-> [obj.val EXCEPT
                !.columns = @ \cup {c},
                !.rows = [i \in 1..Len(obj.val.rows) |->
                            [k \in DOMAIN obj.val.rows[i] \cup {c} |->
                                IF k = c THEN values[i] ELSE obj.val.rows[i][k]]]]]

RECURSIVE KeepIndices(_, _)
\* the positions 1..n that lie in keep, ascending
KeepIndices(n, keep) ==
    IF n = 0 THEN << >>
    ELSE IF n \in keep THEN Append(KeepIndices(n - 1, keep), n)
         ELSE KeepIndices(n - 1, keep)

\* df.dropna(subset=[c]): a new object without the rows whose c is missing
dropna(obj, c) ==
    LET t == obj.val
        keep == KeepIndices(Len(t.rows), {i \in 1..Len(t.rows) : t.rows[i][c] \notin {NaT, NaN}})
    IN [id |-> "copy",
        val |-> [t EXCEPT !.index = [j \in 1..Len(keep) |-> t.index[keep[j]]],
                          !.rows = [j \in 1..Len(keep) |-> t.rows[keep[j]]]]]

\* df.set_index(c): a new object whose index is column c, c no longer a column
set_index(obj, c) ==
    LET t == obj.val
    IN [id |-> "copy",
        val |-> [indexType |-> "DatetimeIndex",
                 index |-> [i \in 1..Len(t.rows) |-> t.rows[i][c]],
                 columns |-> t.columns \ {c},
                 rows |-> [i \in 1..Len(t.rows) |->
                             [k \in t.columns \ {c} |-> t.rows[i][k]]]]]

\* variant: the isinstance test left out
ensure_datetime_index_no_isinstance(obj) ==
    IF "date" \in obj.val.columns
    THEN LET copied == DataFrame_copy(obj)
             parsed == SetColumn(copied, "date",
                          [i \in 1..Len(copied.val.rows) |->
                              to_datetime(copied.val.rows[i]["date"])])
         IN [out |-> set_index(dropna(parsed, "date"), "date"),
             arg |-> IF parsed.id = obj.id THEN parsed ELSE obj]
    ELSE [out |-> obj, arg |-> obj]

\* out: the object returned; arg: the argument object after the call
ensure_datetime_index(obj) ==
    IF obj.val.indexType # "DatetimeIndex" /\ "date" \in obj.val.columns
    THEN LET copied == DataFrame_copy(obj)
             parsed == SetColumn(copied, "date",
                          [i \in 1..Len(copied.val.rows) |->
                              to_datetime(copied.val.rows[i]["date"])])
         IN [out |-> set_index(dropna(parsed, "date"), "date"),
             arg |-> IF parsed.id = obj.id THEN parsed ELSE obj]
    ELSE [out |-> obj, arg |-> obj]

\* if save_path: plt.savefig(save_path, ...)
savefig(save_path) == IF save_path # "None" THEN {save_path} ELSE {}

\* What a call that only warns leaves behind: the message, no figure, no file.
WarnAndReturn(msg, t) ==
    [ret |-> ReturnNone, outcome |-> "returned", stdout |-> <<msg>>,
     shown |-> << >>, saved |-> {}, arg |-> t]

\* one line per requested column that the table has; a column it lacks is skipped
plot_time_series(t, columnas, save_path) ==
    LET e == ensure_datetime_index(CallerObject(t))
        d == e.out.val
        present == FilterSeq(columnas, d.columns)
    IN [ret |-> ReturnNone, outcome |-> "returned", stdout |-> << >>,
        shown |-> <<[kind |-> "line", x |-> d.index,
                     lines |-> [i \in 1..Len(present) |->
                                  [col |-> present[i], y |-> Column(d, present[i])]]]>>,
        saved |-> savefig(save_path), arg |-> e.arg.val]

\* variant: the five-level order used for the bars
orden_ica_five_levels == ICA_ORDER

orden_ica ==
    <<"Buena", "Moderada", "Dañina para grupos sensibles", "Dañina", "Muy dañina", "Peligrosa">>

\* Series.reindex(order, fill_value=0) on the result of value_counts
reindex(counts, order) ==
    [i \in 1..Len(order) |->
        [categoria |-> order[i],
         conteo |-> IF \E j \in 1..Len(counts) : counts[j].categoria = order[i]
                    THEN LET j == CHOOSE j \in 1..Len(counts) : counts[j].categoria = order[i]
                         IN counts[j].conteo
                    ELSE 0]]

\* f"{v / total:.1%}": v / total in tenths of a percent, nan when total is 0.
\* Rounding to the nearest tenth; no tie occurs for the totals the tables reach.
FormatPercent(v, total) ==
    IF total = 0 THEN [nan |-> TRUE, permille |-> 0]
    ELSE [nan |-> FALSE, permille |-> (2000 * v + total) \div (2 * total)]

plot_ica_distribution(t, save_path) ==
    IF "ica_category" \notin t.columns
    THEN WarnAndReturn("La columna 'ica_category' no existe. Ejecuta add_ica_category() primero.", t)
    ELSE LET counts == reindex(value_counts(Column(t, "ica_category"), TRUE), orden_ica)
             total == SumSeq([i \in 1..Len(counts) |-> counts[i].conteo])
         IN [ret |-> ReturnNone, outcome |-> "returned", stdout |-> << >>,
             shown |-> <<[kind |-> "barh",
                          bars |-> [i \in 1..Len(counts) |->
                                      [label |-> counts[i].categoria,
                                       width |-> counts[i].conteo,
                                       text |-> [count |-> counts[i].conteo,
                                                 percent |-> FormatPercent(counts[i].conteo, total)]]]]>>,
             saved |-> savefig(save_path), arg |-> t]

\* columnas is Optional[List[str]]: [is_none |-> TRUE] stands for None
SomeList(l) == [is_none |-> FALSE, list |-> l]

NoList == [is_none |-> TRUE, list |-> << >>]

\* variant: len(columnas) < 1
too_few_columns_off_by_one(columnas) == Len(columnas) < 1

\* len(columnas) < 2
too_few_columns(columnas) == Len(columnas) < 2

\* The returned matrix is known by its column labels (the same on both axes); the
\* coefficients, and the top-k lines printed under the header, are not computed.
plot_correlation_matrix(t, columnas, save_path, ref, print_top) ==
    LET valid == IF columnas.is_none THEN FilterSeq(CONTAMINANTES, t.columns)
                 ELSE FilterSeq(columnas.list, t.columns)
    IN IF too_few_columns(valid)
       THEN WarnAndReturn("Se necesitan al menos 2 columnas para calcular correlaciones.", t)
       ELSE [ret |-> [kind |-> "DataFrame", value |-> [columns |-> valid, index |-> valid]],
             outcome |-> "returned",
             stdout |-> IF print_top /\ \E i \in 1..Len(valid) : valid[i] = ref
                        THEN <<"Correlaciones más altas con PM2.5:">> ELSE << >>,
             shown |-> <<[kind |-> "heatmap", data |-> [columns |-> valid, index |-> valid]]>>,
             saved |-> savefig(save_path), arg |-> t]

dias == <<"Lunes", "Martes", "Miércoles", "Jueves", "Viernes", "Sábado", "Domingo">>

\* pivot_table(values=columna, index='dow', columns='hour', aggfunc='mean') with
\* its index relabelled by dias; a cell's mean is kept as sum and n
pivot_table(t, columna) ==
    LET cells == {<<t.rows[i]["dow"], t.rows[i]["hour"]>> : i \in 1..Len(t.rows)}
    IN {[dia |-> dias[c[1] + 1], hour |-> c[2],
         sum |-> SumSeq([j \in 1..Len(t.rows) |->
                    IF <<t.rows[j]["dow"], t.rows[j]["hour"]>> = c
                    THEN t.rows[j][columna] ELSE 0]),
         n |-> Cardinality({j \in 1..Len(t.rows) :
                    <<t.rows[j]["dow"], t.rows[j]["hour"]>> = c})] : c \in cells}

plot_heatmap_hourly(t, columna, save_path) ==
    LET e == ensure_datetime_index(CallerObject(t))
        d == e.out
    IN IF columna \notin d.val.columns
       THEN WarnAndReturn("La columna no existe en el DataFrame.", e.arg.val)
       ELSE LET df_temp == DataFrame_copy(d)
            IN IF df_temp.val.indexType # "DatetimeIndex"
               THEN \* df_temp.index.dayofweek: the index has no such attribute
                    [ret |-> ReturnNone, outcome |-> "raised AttributeError",
                     stdout |-> << >>, shown |-> << >>, saved |-> {}, arg |-> e.arg.val]
               ELSE LET n == Len(df_temp.val.rows)
                        with_dow == SetColumn(df_temp, "dow",
                                       [i \in 1..n |-> dayofweek(df_temp.val.index[i])])
                        with_hour == SetColumn(with_dow, "hour",
                                       [i \in 1..n |-> hour(df_temp.val.index[i])])
                        after == IF with_hour.id = "caller" THEN with_hour.val ELSE e.arg.val
                    IN IF columna \in {"date", "ica_category"}
                       THEN \* aggfunc='mean' over a column of strings
                            [ret |-> ReturnNone, outcome |-> "raised TypeError",
                             stdout |-> << >>, shown |-> << >>, saved |-> {}, arg |-> after]
                       ELSE [ret |-> ReturnNone, outcome |-> "returned", stdout |-> << >>,
                             shown |-> <<[kind |-> "heatmap",
                                          data |-> pivot_table(with_hour.val, columna)]>>,
                             saved |-> savefig(save_path), arg |-> after]

\* variant: `and` for `or` in the membership test
plot_scatter_comparison_both_missing(t, col_x, col_y, save_path) ==
    IF col_x \notin t.columns /\ col_y \notin t.columns
    THEN WarnAndReturn("Una o ambas columnas no existen en el DataFrame.", t)
    ELSE [ret |-> ReturnNone, outcome |-> "returned", stdout |-> << >>,
          shown |-> <<[kind |-> "scatter", x |-> << >>, y |-> << >>, c |-> "purple"]>>,
          saved |-> savefig(save_path), arg |-> t]

plot_scatter_comparison(t, col_x, col_y, save_path) ==
    IF col_x \notin t.columns \/ col_y \notin t.columns
    THEN WarnAndReturn("Una o ambas columnas no existen en el DataFrame.", t)
    ELSE [ret |-> ReturnNone, outcome |-> "returned", stdout |-> << >>,
          shown |-> <<[kind |-> "scatter", x |-> Column(t, col_x), y |-> Column(t, col_y),
                       c |-> IF "ica_category" \in t.columns
                             THEN "ica_category.map(ICA_COLORS)" ELSE "purple"]>>,
          saved |-> savefig(save_path), arg |-> t]

plot_correlated_pollutants(t, contaminante, objetivo, regression, save_path) ==
    IF contaminante \notin t.columns
    THEN WarnAndReturn("La columna no existe en el DataFrame.", t)
    ELSE IF objetivo \notin t.columns
    THEN WarnAndReturn("La columna objetivo no existe en el DataFrame.", t)
    ELSE [ret |-> ReturnNone, outcome |-> "returned", stdout |-> << >>,
          shown |-> <<[kind |-> IF regression THEN "regplot" ELSE "scatter",
                       x |-> Column(t, contaminante), y |-> Column(t, objetivo)]>>,
          saved |-> savefig(save_path), arg |-> t]

\* ------------------------------------------------------------ input tables
Categories == {"Buena", "Moderada", "Dañina", NaN}

DateStrings == {"2024-01-01 00:00", "2024-01-07 13:00", "sin fecha"}

Timestamps == {"Timestamp('2024-01-01 00:00:00')", "Timestamp('2024-01-07 13:00:00')"}

Measurements == {10}

RowsOver(cols) ==
    {[c \in cols |-> CASE c = "date" -> x.date
                       [] c = "ica_category" -> x.category
                       [] OTHER -> x.measurement] :
        x \in [date : IF "date" \in cols THEN DateStrings ELSE {"-"},
               category : IF "ica_category" \in cols THEN Categories ELSE {"-"},
               measurement : Measurements]}

\* every table of n rows with the given kind of index and the given columns
Tables(indexType, cols, n) ==
    {[indexType |-> indexType, index |-> idx, columns |-> cols, rows |-> rows] :
        idx \in IF indexType = "DatetimeIndex" THEN [1..n -> Timestamps]
                ELSE {[i \in 1..n |-> ToString(i - 1)]},
        rows \in [1..n -> RowsOver(cols)]}

TableShapes ==
    {<<"RangeIndex", {"ica_category"}>>,
     <<"RangeIndex", {"pm2_5", "pm10", "ica_category"}>>,
     <<"RangeIndex", {"pm2_5", "pm10"}>>,
     <<"RangeIndex", {"pm2_5"}>>,
     <<"RangeIndex", {"date", "pm2_5"}>>,
     <<"DatetimeIndex", {"pm2_5"}>>,
     <<"DatetimeIndex", {"date", "pm2_5"}>>}

InputTables ==
    UNION {Tables(shape[1], shape[2], n) : shape \in TableShapes, n \in 0..MaxRows}

SavePaths == {"None", "fig.png"}

ColumnArgs == {"pm2_5", "pm10", "no_existe"}

\* ------------------------------------------------------------ state machine
NoCall ==
    [columna |-> "-", col_y |-> "-", columnas |-> NoList, save_path |-> "None",
     flag |-> FALSE]

Init ==
    /\ df \in InputTables
    /\ op = "-"
    /\ call = NoCall
    /\ ret = ReturnNone
    /\ outcome = "returned"
    /\ stdout = << >>
    /\ shown = << >>
    /\ saved = {}

\* the state a call leaves: r is what the function's operator returned
Leaves(name, c, r, figure, files) ==
    /\ op' = name
    /\ call' = c
    /\ ret' = r.ret
    /\ outcome' = r.outcome
    /\ stdout' = r.stdout
    /\ shown' = figure
    /\ saved' = files
    /\ df' = r.arg

Call_show_ica_health_table ==
    /\ op = "-"
    /\ Leaves("show_ica_health_table", NoCall,
              [ret |-> show_ica_health_table, outcome |-> "returned", stdout |-> << >>,
               arg |-> df],
              << >>, {})

Call_category_distribution ==
    /\ op = "-"
    /\ \E cat_col \in {"ica_category", "no_existe"} :
           Leaves("category_distribution", [NoCall EXCEPT !.columna = cat_col],
                  category_distribution(df, cat_col), << >>, {})

Call_ensure_datetime_index ==
    /\ op = "-"
    /\ LET e == ensure_datetime_index(CallerObject(df))
       IN Leaves("ensure_datetime_index", NoCall,
                 [ret |-> [kind |-> "DataFrame", value |-> e.out.val],
                  outcome |-> "returned", stdout |-> << >>, arg |-> e.arg.val],
                 << >>, {})

Call_plot_time_series ==
    /\ op = "-"
    /\ \E columnas \in {<<"pm2_5", "pm10">>, <<"pm2_5">>, <<"no_existe">>},
          save_path \in SavePaths :
           LET r == plot_time_series(df, columnas, save_path)
           IN Leaves("plot_time_series",
                     [NoCall EXCEPT !.columnas = SomeList(columnas), !.save_path = save_path],
                     r, r.shown, r.saved)

Call_plot_ica_distribution ==
    /\ op = "-"
    /\ \E save_path \in SavePaths :
           LET r == plot_ica_distribution(df, save_path)
           IN Leaves("plot_ica_distribution", [NoCall EXCEPT !.save_path = save_path],
                     r, r.shown, r.saved)

Call_plot_correlation_matrix ==
    /\ op = "-"
    /\ \E columnas \in {NoList, SomeList(<<"pm2_5", "pm10">>),
                        SomeList(<<"pm2_5", "no_existe">>), SomeList(<<"pm10", "pm10">>)},
          save_path \in SavePaths, print_top \in BOOLEAN :
           LET r == plot_correlation_matrix(df, columnas, save_path, "pm2_5", print_top)
           IN Leaves("plot_correlation_matrix",
                     [NoCall EXCEPT !.columnas = columnas, !.save_path = save_path,
                                    !.flag = print_top],
                     r, r.shown, r.saved)

Call_plot_heatmap_hourly ==
    /\ op = "-"
    /\ \E columna \in {"pm2_5", "no_existe", "date"}, save_path \in SavePaths :
           LET r == plot_heatmap_hourly(df, columna, save_path)
           IN Leaves("plot_heatmap_hourly",
                     [NoCall EXCEPT !.columna = columna, !.save_path = save_path],
                     r, r.shown, r.saved)

Call_plot_scatter_comparison ==
    /\ op = "-"
    /\ \E col_x \in ColumnArgs, col_y \in ColumnArgs, save_path \in SavePaths :
           LET r == plot_scatter_comparison(df, col_x, col_y, save_path)
           IN Leaves("plot_scatter_comparison",
                     [NoCall EXCEPT !.columna = col_x, !.col_y = col_y,
                                    !.save_path = save_path],
                     r, r.shown, r.saved)

Call_plot_correlated_pollutants ==
    /\ op = "-"
    /\ \E contaminante \in {"pm10", "pm_10"}, objetivo \in {"pm2_5", "no_existe"},
          regression \in BOOLEAN, save_path \in SavePaths :
           LET r == plot_correlated_pollutants(df, contaminante, objetivo, regression, save_path)
           IN Leaves("plot_correlated_pollutants",
                     [NoCall EXCEPT !.columna = contaminante, !.col_y = objetivo,
                                    !.save_path = save_path, !.flag = regression],
                     r, r.shown, r.saved)

\* The caller is done with what the last call left (plt.show() has returned, the
\* result was used) and is ready to call again; the written files are not tracked
\* beyond the call that wrote them.
Caller_ready ==
    /\ op # "-"
    /\ op' = "-"
    /\ call' = NoCall
    /\ ret' = ReturnNone
    /\ outcome' = "returned"
    /\ stdout' = << >>
    /\ shown' = << >>
    /\ saved' = {}
    /\ UNCHANGED df

Next ==
    \/ Caller_ready
    \/ Call_show_ica_health_table
    \/ Call_category_distribution
    \/ Call_ensure_datetime_index
    \/ Call_plot_time_series
    \/ Call_plot_ica_distribution
    \/ Call_plot_correlation_matrix
    \/ Call_plot_heatmap_hourly
    \/ Call_plot_scatter_comparison
    \/ Call_plot_correlated_pollutants

Spec == Init /\ [][Next]_vars

\* ------------------------------------------------------------------ claims
Returned(name) == op = name /\ outcome = "returned"

WarnedOnly == stdout # << >> /\ shown = << >> /\ saved = {}

\* C1: on a table without the column named by cat_col, category_distribution
\* prints a warning, returns None and does not raise.
C1_MissingColumnReturnsNone ==
    (op = "category_distribution" /\ call.columna \notin df.columns)
        => (outcome = "returned" /\ ret.kind = "None" /\ stdout # << >>)

C1_Witness ==
    /\ op = "category_distribution"
    /\ call.columna \notin df.columns
    /\ Len(df.rows) > 0
    /\ ret.kind = "None"

\* the renderer was asked for a column name that the caller's table does not have
AsksMissingColumn ==
    \/ op = "plot_time_series"
         /\ \E i \in 1..Len(call.columnas.list) : call.columnas.list[i] \notin df.columns
    \/ op = "plot_heatmap_hourly" /\ call.columna \notin df.columns
    \/ op \in {"plot_scatter_comparison", "plot_correlated_pollutants"}
         /\ (call.columna \notin df.columns \/ call.col_y \notin df.columns)

C3_NoCallEndsInException == op # "-" => outcome = "returned"

\* C4: ensure_datetime_index applied to its own result returns that result, and
\* applied to a table whose index is already a DatetimeIndex it returns the table.
C4_EnsureIdempotent ==
    op = "ensure_datetime_index" =>
        /\ ensure_datetime_index(CallerObject(ret.value)).out.val = ret.value
        /\ df.indexType = "DatetimeIndex" => ret.value = df

C4_Witness ==
    /\ op = "ensure_datetime_index"
    /\ df.indexType = "RangeIndex"
    /\ ret.value.indexType = "DatetimeIndex"
    /\ 0 < Len(ret.value.rows)
    /\ Len(ret.value.rows) < Len(df.rows)

Conteos == [i \in 1..Len(ret.value) |-> ret.value[i].conteo]

\* C5: for a non-empty table with the column, the percentages of the result of
\* category_distribution add up to 100 and its counts to the number of rows.
C5_PercentagesSumTo100 ==
    (Returned("category_distribution") /\ ret.kind = "DataFrame" /\ Len(df.rows) > 0) =>
        LET n == Len(ret.value)
            den == ret.value[1].porcentaje.den
        IN /\ n > 0
           /\ den > 0
           /\ \A i \in 1..n : ret.value[i].porcentaje.den = den
           /\ SumSeq([i \in 1..n |-> ret.value[i].porcentaje.num]) = 100 * den
           /\ SumSeq(Conteos) = Len(df.rows)

C5_Witness ==
    /\ Returned("category_distribution")
    /\ ret.kind = "DataFrame"
    /\ Len(ret.value) >= 2
    /\ \E i \in 1..Len(ret.value) : ret.value[i].categoria = NaN

\* C6: category_distribution returns one row per distinct value of the column,
\* a missing value being a value; the row's count is the number of rows with that
\* value, its percentage count / total * 100, and counts never increase down the
\* table. A table whose rows share one value gives one row of 100 percent.
C6_OneRowPerCategory ==
    (Returned("category_distribution") /\ ret.kind = "DataFrame") =>
        LET n == Len(ret.value)
            col == [i \in 1..Len(df.rows) |-> df.rows[i][call.columna]]
            nrows == Len(df.rows)
        IN /\ {ret.value[i].categoria : i \in 1..n} = {col[i] : i \in 1..nrows}
           /\ \A i, j \in 1..n : i # j => ret.value[i].categoria # ret.value[j].categoria
           /\ \A i \in 1..n :
                /\ ret.value[i].conteo =
                      Cardinality({k \in 1..nrows : col[k] = ret.value[i].categoria})
                /\ ret.value[i].porcentaje = [num |-> ret.value[i].conteo * 100, den |-> nrows]
           /\ \A i, j \in 1..n : i < j => ret.value[i].conteo >= ret.value[j].conteo
           /\ (nrows > 0 /\ \A k \in 1..nrows : col[k] = col[1]) =>
                 (n = 1 /\ ret.value[1].porcentaje.num = 100 * ret.value[1].porcentaje.den)

C6_Witness ==
    /\ Returned("category_distribution")
    /\ ret.kind = "DataFrame"
    /\ Len(ret.value) = 2
    /\ ret.value[1].conteo > ret.value[2].conteo
    /\ ret.value[1].categoria # df.rows[1]["ica_category"]
    /\ \E i \in 1..2 : ret.value[i].categoria = NaN

\* the columns asked of plot_correlation_matrix: the default pollutants when none
Requested == IF call.columnas.is_none THEN CONTAMINANTES ELSE call.columnas.list

ValidCount == Cardinality({i \in 1..Len(Requested) : Requested[i] \in df.columns})

\* C7: with fewer than 2 of the requested (or default) columns in the table,
\* plot_correlation_matrix warns, returns None, renders and saves nothing; with 2
\* or more it returns a correlation matrix over exactly the valid columns.
C7_CorrelationNeedsTwoColumns ==
    op = "plot_correlation_matrix" =>
        /\ outcome = "returned"
        /\ ValidCount < 2 => (ret.kind = "None" /\ WarnedOnly)
        /\ ValidCount >= 2 =>
              /\ ret.kind = "DataFrame"
              /\ Len(ret.value.columns) = ValidCount
              /\ {ret.value.columns[i] : i \in 1..Len(ret.value.columns)}
                    = {Requested[i] : i \in 1..Len(Requested)} \cap df.columns
              /\ ret.value.index = ret.value.columns
              /\ shown # << >>

C7_Witness ==
    /\ op = "plot_correlation_matrix"
    /\ ValidCount = 1
    /\ call.save_path = "fig.png"
    /\ saved = {}
    /\ ret.kind = "None"

\* C8: no call changes the caller's table: its columns, index and rows are the
\* same after the call as before.
C8_CallerTableUnchanged == [][df' = df]_vars

C8_Witness ==
    /\ op = "plot_heatmap_hourly"
    /\ df.indexType = "RangeIndex"
    /\ "date" \in df.columns
    /\ shown # << >>
    /\ \E cell \in shown[1].data : cell.n >= 2

\* C9: show_ica_health_table returns 5 rows whose categories are, in order,
\* Buena, Moderada, Dañina para grupos sensibles, Muy dañina, Peligrosa: the
\* order of ICA_ORDER.
C9_ReferenceTableFiveRows ==
    op = "show_ica_health_table" =>
        /\ outcome = "returned"
        /\ ret.kind = "DataFrame"
        /\ Len(ret.value) = 5
        /\ [i \in 1..5 |-> ret.value[i].categoria]
              = <<"Buena", "Moderada", "Dañina para grupos sensibles", "Muy dañina",
                  "Peligrosa">>
        /\ [i \in 1..5 |-> ret.value[i].categoria] = ICA_ORDER

C9_Witness == op = "show_ica_health_table" /\ ret.kind = "DataFrame"

SixLabels ==
    <<"Buena", "Moderada", "Dañina para grupos sensibles", "Dañina", "Muy dañina", "Peligrosa">>

RowsLabelled(labels) ==
    Cardinality({k \in 1..Len(df.rows) : df.rows[k]["ica_category"] \in labels})

\* the bars of plot_ica_distribution, their percentages taken over `total` rows
SixBarsOver(total) ==
    /\ shown # << >>
    /\ Len(shown[1].bars) = 6
    /\ \A i \in 1..6 :
         LET bar == shown[1].bars[i]
         IN /\ bar.label = SixLabels[i]
            /\ bar.width = RowsLabelled({SixLabels[i]})
            /\ bar.text.count = bar.width
            /\ bar.text.percent = FormatPercent(bar.width, total)

\* C10 (as stated): for a table with 'ica_category', plot_ica_distribution draws
\* six bars in the canonical order, each as long as the number of rows with its
\* label and annotated with that count and its percentage of the rows.
C10_SixBarsPercentOfRows ==
    (op = "plot_ica_distribution" /\ "ica_category" \in df.columns)
        => SixBarsOver(Len(df.rows))

\* C10 (amended): the percentage is taken over the rows that carry one of the six
\* labels, and is nan when no row does.
C10_SixBarsPercentOfLabelledRows ==
    (op = "plot_ica_distribution" /\ "ica_category" \in df.columns)
        => (outcome = "returned"
            /\ SixBarsOver(RowsLabelled({SixLabels[i] : i \in 1..6})))

C10_Witness ==
    /\ op = "plot_ica_distribution"
    /\ "ica_category" \in df.columns
    /\ RowsLabelled({NaN}) > 0
    /\ RowsLabelled({"Dañina"}) > 0
    /\ RowsLabelled({"Buena"}) > 0
    /\ shown # << >>

====
